---- MODULE Spec2Model ----
(***************************************************************************)
(* State-machine model of src/src/App.tsx (CSV Language Detector).         *)
(*                                                                         *)
(* The React component's state (the useState cells) are the variables;     *)
(* the two event handlers and the four Papa.parse callbacks are the        *)
(* actions.  Papa.parse on a File is asynchronous: a handler starts a      *)
(* parse, its complete/error callback runs later, and several parses may   *)
(* be in flight at once, finishing in any order.  State updates made in    *)
(* one callback are applied together (React batches them).                 *)
(*                                                                         *)
(* A file is modelled by what Papa.parse(file) yields without the header   *)
(* option: a sequence of rows, each a sequence of string cells.  Tables    *)
(* are rectangular.  No header cell of the universe is an integer-like     *)
(* string, so Object.keys returns the keys in insertion order.             *)
(***************************************************************************)
EXTENDS Integers, Sequences, FiniteSets, TLC

VARIABLES
    file,             \* useState<File | null>                     (line 14)
    columns,          \* useState<string[]>                        (line 15)
    selectedColumn,   \* useState<string>                          (line 16)
    isProcessing,     \* useState<boolean>                         (line 17)
    error,            \* useState<string | null>                   (line 18)
    languageResults,  \* useState<LanguageResult[]>                (line 19)
    stats,            \* useState<{rows, labels, languages}>       (line 20)
    uploadParses,     \* Papa.parse calls of handleFileUpload in flight
    columnParses,     \* Papa.parse calls of handleColumnSelect in flight
    seq,              \* number of handler invocations so far (orders the passes)
    uploadsLeft,      \* environment: uploads the user may still make
    eventsLeft,       \* environment: handler invocations the user may still make
    lastEvent,        \* history: the step taken last
    shown             \* history: the pass whose completion wrote languageResults

vars == <<file, columns, selectedColumn, isProcessing, error, languageResults,
          stats, uploadParses, columnParses, seq, uploadsLeft, eventsLeft,
          lastEvent, shown>>

(***************************************************************************)
(* Bounds of the model.                                                    *)
(***************************************************************************)
MaxRows == 2
MaxCols == 2
MaxEvents == 3

(***************************************************************************)
(* Program constant: the preview length of line 76.                        *)
(***************************************************************************)
TruncLen == 50

Ellipsis == "..."

(***************************************************************************)
(* Cell contents.  D50 has exactly 50 characters and itself ends in three  *)
(* dots; T51 has 51 characters.                                            *)
(***************************************************************************)
D50 == "00000000000000000000000000000000000000000000000..."
T51 == "The quick brown fox jumps over the lazy dog at dawn"

DataCells == {"", D50, T51}

HeaderName(j) ==
    CASE j = 1 -> "label"
      [] j = 2 -> "text"
      [] j = 3 -> "note"
      [] OTHER -> "col" \o ToString(j)

HeaderRows(w) ==
    {r \in [1..w -> {"", " "} \cup {HeaderName(j) : j \in 1..w}] :
        \A j \in 1..w : r[j] \in {"", " ", HeaderName(j)}}

DataRows(w) == [1..w -> DataCells]

TablesOf(n, w) ==
    IF n = 0 THEN {<<>>}
    ELSE {<<h>> \o d : h \in HeaderRows(w), d \in [1..(n - 1) -> DataRows(w)]}

Tables == UNION {TablesOf(n, w) : n \in 0..MaxRows, w \in 1..MaxCols}

(***************************************************************************)
(* The files of the interactive session.                                   *)
(***************************************************************************)
EmptyTable == <<>>
HeaderTable == << <<"label", "text">>, <<"A", T51>>, <<"B", D50>>, <<"C", "">> >>
HeaderOnlyTable == << <<"label", "text">> >>
HeaderlessTable == << <<"", "text">>, <<"A", T51>> >>
BlankHeaderTable == << <<"label", " ">>, <<"A", T51>> >>

SampleFiles ==
    {EmptyTable, HeaderTable, HeaderOnlyTable, HeaderlessTable, BlankHeaderTable}

(***************************************************************************)
(* JavaScript values.                                                      *)
(***************************************************************************)
Null == "<null>"
NullFile == [isFile |-> FALSE, rows |-> <<>>]
FileOf(t) == [isFile |-> TRUE, rows |-> t]

Str(s) == [type |-> "string", val |-> s]
Undefined == [type |-> "undefined", val |-> ""]
Truthy(v) == v.type = "string" /\ v.val # ""

Range(s) == {s[i] : i \in 1..Len(s)}

RECURSIVE TrimStart(_)
TrimStart(s) ==
    IF Len(s) > 0 /\ SubSeq(s, 1, 1) = " " THEN TrimStart(SubSeq(s, 2, Len(s))) ELSE s

RECURSIVE TrimEnd(_)
TrimEnd(s) ==
    IF Len(s) > 0 /\ SubSeq(s, Len(s), Len(s)) = " "
    THEN TrimEnd(SubSeq(s, 1, Len(s) - 1)) ELSE s

\* String.prototype.trim
Trim(s) == TrimEnd(TrimStart(s))

\* String.prototype.substring(0, n)
Substring0(s, n) == SubSeq(s, 1, IF Len(s) < n THEN Len(s) ELSE n)

(***************************************************************************)
(* getLanguageName and its collaborators.                                  *)
(***************************************************************************)
\* ./langCodes: the fixed code -> name table.
langCodes == [c \in {"eng", "fra"} |-> IF c = "eng" THEN "English" ELSE "French"]

getLanguageName(langCode) ==
    IF langCode = "und" THEN "Undetermined"
    ELSE IF langCode \in DOMAIN langCodes THEN langCodes[langCode] ELSE langCode

\* franc.franc, a pure function of the text: "und" for a text that is too
\* short (under 10 characters) or that has no letters.
franc(text) ==
    IF Len(text) < 10 THEN "und"
    ELSE IF SubSeq(text, 1, 1) = "T" THEN "eng" ELSE "und"

(***************************************************************************)
(* handleFileUpload's complete callback: schema inference.                 *)
(***************************************************************************)
\* line 39: firstRow.every(cell => typeof cell === 'string' && cell.trim() !== '')
\* (every cell Papa yields is a string)
UploadHasHeaders(firstRow) == \A j \in 1..Len(firstRow) : Trim(firstRow[j]) # ""

\* line 42: firstRow.slice(1)
HeaderColumns(firstRow) == SubSeq(firstRow, 2, Len(firstRow))

\* line 43: firstRow[1] || ''
HeaderDefault(firstRow) == IF Len(firstRow) >= 2 THEN firstRow[2] ELSE ""

\* line 45: firstRow.map((_, index) => `Column ${index + 1}`)
SyntheticColumns(firstRow) == [j \in 1..Len(firstRow) |-> "Column " \o ToString(j)]

(***************************************************************************)
(* Papa.parse(file, {header: true}): row 0 gives the field names (a        *)
(* repeated name gets the suffix _n, as PapaParse 5.4 does), every later   *)
(* row becomes an object keyed by them.  With no row or one row, data is   *)
(* empty.                                                                  *)
(***************************************************************************)
PapaFields(firstRow) ==
    [j \in 1..Len(firstRow) |->
        LET earlier == Cardinality({i \in 1..(j - 1) : firstRow[i] = firstRow[j]})
        IN  IF earlier = 0 THEN firstRow[j]
            ELSE firstRow[j] \o "_" \o ToString(earlier)]

PapaHeaderData(rows) ==
    IF Len(rows) = 0 THEN <<>>
    ELSE [i \in 1..(Len(rows) - 1) |->
            [keys |-> PapaFields(rows[1]), vals |-> rows[i + 1]]]

ObjectKeys(obj) == obj.keys

\* row[key]
Get(obj, key) ==
    LET hits == {j \in 1..Len(obj.keys) : obj.keys[j] = key /\ j <= Len(obj.vals)}
    IN  IF hits = {} THEN Undefined
        ELSE Str(obj.vals[CHOOSE j \in hits : \A k \in hits : j <= k])

(***************************************************************************)
(* handleColumnSelect's complete callback: the classification pass.        *)
(***************************************************************************)
\* line 66
ColumnHasHeaders(data) == \A key \in Range(ObjectKeys(data[1])) : key # ""

\* line 67
LabelColumn(data) == IF ColumnHasHeaders(data) THEN ObjectKeys(data[1])[1] ELSE "0"

\* line 70
KeepsRow(row, column) == Truthy(Get(row, column)) /\ Get(row, column).type = "string"

FilterRows(data, column) == SelectSeq(data, LAMBDA row : KeepsRow(row, column))

\* line 76 with >= for >
TruncateTextOffByOne(cell) ==
    Substring0(cell, TruncLen) \o (IF Len(cell) >= TruncLen THEN Ellipsis ELSE "")

\* line 76
TruncateText(cell) ==
    Substring0(cell, TruncLen) \o (IF Len(cell) > TruncLen THEN Ellipsis ELSE "")

\* lines 69-78
ComputeResults(data, column) ==
    LET kept == FilterRows(data, column)
    IN  [index \in 1..Len(kept) |->
            LET cell == Get(kept[index], column).val
            IN  [label    |-> IF ColumnHasHeaders(data)
                              THEN Get(kept[index], LabelColumn(data)).val
                              ELSE "Row " \o ToString(index),
                 language |-> getLanguageName(franc(cell)),
                 text     |-> TruncateText(cell)]]

\* line 84
StatsLanguages(data, results) == {results[i].language : i \in 1..Len(results)}

\* lines 81-85
ComputeStats(data, results) ==
    [rows      |-> Len(data),
     labels    |-> IF ColumnHasHeaders(data)
                   THEN Cardinality({Get(data[i], LabelColumn(data)) : i \in 1..Len(data)})
                   ELSE Len(data),
     languages |-> StatsLanguages(data, results)]

(***************************************************************************)
(* History records.                                                        *)
(***************************************************************************)
NoPass == [id |-> 0, rows |-> <<>>, column |-> "",
           before |-> [languageResults |-> <<>>, stats |-> <<>>]]

Event(kind, pass, hasHeaders) ==
    [kind |-> kind, pass |-> pass, hasHeaders |-> hasHeaders,
     pre |-> [error |-> error, shown |-> shown.id]]

(***************************************************************************)
(* Initial state: the useState defaults.                                   *)
(***************************************************************************)
InitApp ==
    /\ file = NullFile
    /\ columns = <<>>
    /\ selectedColumn = ""
    /\ isProcessing = FALSE
    /\ error = Null
    /\ languageResults = <<>>
    /\ stats = [rows |-> 0, labels |-> 0, languages |-> {}]
    /\ uploadParses = {}
    /\ columnParses = {}
    /\ seq = 0
    /\ lastEvent = [kind |-> "init", pass |-> NoPass, hasHeaders |-> FALSE,
                    pre |-> [error |-> Null, shown |-> 0]]
    /\ shown = NoPass

Init == InitApp /\ uploadsLeft = MaxEvents /\ eventsLeft = MaxEvents

PipelineInit == InitApp /\ uploadsLeft = 1 /\ eventsLeft = 2

(***************************************************************************)
(* handleFileUpload (lines 30-35): the synchronous part.                   *)
(***************************************************************************)
handleFileUpload(uploadedFile) ==
    /\ uploadsLeft > 0 /\ eventsLeft > 0
    /\ uploadsLeft' = uploadsLeft - 1
    /\ eventsLeft' = eventsLeft - 1
    /\ seq' = seq + 1
    /\ file' = FileOf(uploadedFile)
    /\ error' = Null
    /\ uploadParses' = uploadParses \cup {[id |-> seq + 1, rows |-> uploadedFile]}
    /\ lastEvent' = Event("handleFileUpload", [id |-> seq + 1, rows |-> uploadedFile], FALSE)
    /\ UNCHANGED <<columns, selectedColumn, isProcessing, languageResults, stats,
                   columnParses, shown>>

(***************************************************************************)
(* handleFileUpload's complete callback (lines 36-49).                     *)
(***************************************************************************)
UploadComplete(p) ==
    /\ p \in uploadParses
    /\ uploadParses' = uploadParses \ {p}
    /\ IF Len(p.rows) > 0
       THEN LET firstRow == p.rows[1]
                hasHeaders == UploadHasHeaders(firstRow)
            IN  /\ IF hasHeaders
                   THEN /\ columns' = HeaderColumns(firstRow)
                        /\ selectedColumn' = HeaderDefault(firstRow)
                   ELSE /\ columns' = SyntheticColumns(firstRow)
                        /\ selectedColumn' = "Column 2"
                /\ lastEvent' = Event("uploadComplete", p, hasHeaders)
       ELSE /\ UNCHANGED <<columns, selectedColumn>>
            /\ lastEvent' = Event("uploadComplete", p, FALSE)
    /\ UNCHANGED <<file, isProcessing, error, languageResults, stats, columnParses,
                   seq, uploadsLeft, eventsLeft, shown>>

(***************************************************************************)
(* handleFileUpload's error callback (lines 50-52).                        *)
(***************************************************************************)
UploadError(p) ==
    /\ p \in uploadParses
    /\ uploadParses' = uploadParses \ {p}
    /\ error' = "Error parsing CSV: read failed"
    /\ lastEvent' = Event("uploadError", p, FALSE)
    /\ UNCHANGED <<file, columns, selectedColumn, isProcessing, languageResults, stats,
                   columnParses, seq, uploadsLeft, eventsLeft, shown>>

(***************************************************************************)
(* handleColumnSelect (lines 57-63): the synchronous part.  The select     *)
(* element is rendered only when columns is non-empty (line 138) and       *)
(* offers '' and the columns (lines 149-155).                              *)
(***************************************************************************)
ColumnPass(column) ==
    [id |-> seq + 1, rows |-> file.rows, column |-> column,
     before |-> [languageResults |-> languageResults, stats |-> stats]]

handleColumnSelect(column) ==
    /\ eventsLeft > 0
    /\ Len(columns) > 0
    /\ column \in {""} \cup Range(columns)
    /\ eventsLeft' = eventsLeft - 1
    /\ seq' = seq + 1
    /\ selectedColumn' = column
    /\ isProcessing' = TRUE
    /\ error' = Null
    /\ columnParses' = IF file.isFile THEN columnParses \cup {ColumnPass(column)}
                       ELSE columnParses
    /\ lastEvent' = Event("handleColumnSelect", ColumnPass(column), FALSE)
    /\ UNCHANGED <<file, columns, languageResults, stats, uploadParses, uploadsLeft,
                   shown>>

(***************************************************************************)
(* The complete callback without its setStats call (lines 81-85).          *)
(***************************************************************************)
ColumnCompleteStaleStats(p) ==
    /\ p \in columnParses
    /\ columnParses' = columnParses \ {p}
    /\ LET data == PapaHeaderData(p.rows)
       IN  IF Len(data) = 0
           THEN /\ lastEvent' = Event("columnThrow", p, FALSE)
                /\ UNCHANGED <<languageResults, stats, isProcessing, shown>>
           ELSE /\ languageResults' = ComputeResults(data, p.column)
                /\ isProcessing' = FALSE
                /\ shown' = p
                /\ lastEvent' = Event("columnComplete", p, ColumnHasHeaders(data))
                /\ UNCHANGED stats
    /\ UNCHANGED <<file, columns, selectedColumn, error, uploadParses, seq,
                   uploadsLeft, eventsLeft>>

(***************************************************************************)
(* handleColumnSelect's complete callback (lines 64-87).  With no data     *)
(* row, Object.keys(data[0]) of line 66 throws a TypeError and the         *)
(* callback ends there: no state is set.                                   *)
(***************************************************************************)
ColumnComplete(p) ==
    /\ p \in columnParses
    /\ columnParses' = columnParses \ {p}
    /\ LET data == PapaHeaderData(p.rows)
       IN  IF Len(data) = 0
           THEN /\ lastEvent' = Event("columnThrow", p, FALSE)
                /\ UNCHANGED <<languageResults, stats, isProcessing, shown>>
           ELSE LET results == ComputeResults(data, p.column)
                IN  /\ languageResults' = results
                    /\ stats' = ComputeStats(data, results)
                    /\ isProcessing' = FALSE
                    /\ shown' = p
                    /\ lastEvent' = Event("columnComplete", p, ColumnHasHeaders(data))
    /\ UNCHANGED <<file, columns, selectedColumn, error, uploadParses, seq,
                   uploadsLeft, eventsLeft>>

(***************************************************************************)
(* handleColumnSelect's error callback (lines 89-92).                      *)
(***************************************************************************)
ColumnError(p) ==
    /\ p \in columnParses
    /\ columnParses' = columnParses \ {p}
    /\ error' = "Error processing CSV: read failed"
    /\ isProcessing' = FALSE
    /\ lastEvent' = Event("columnError", p, FALSE)
    /\ UNCHANGED <<file, columns, selectedColumn, languageResults, stats, uploadParses,
                   seq, uploadsLeft, eventsLeft, shown>>

(***************************************************************************)
(* Specifications.                                                         *)
(***************************************************************************)
SelectChoices == {""} \cup Range(columns)

Callback ==
    \/ \E p \in uploadParses : UploadComplete(p)
    \/ \E p \in uploadParses : UploadError(p)
    \/ \E p \in columnParses : ColumnComplete(p)
    \/ \E p \in columnParses : ColumnError(p)

\* An interactive session over the sample files.
Next ==
    \/ uploadsLeft > 0 /\ \E f \in SampleFiles : handleFileUpload(f)
    \/ \E c \in SelectChoices : handleColumnSelect(c)
    \/ \E p \in uploadParses : UploadComplete(p)
    \/ \E p \in uploadParses : UploadError(p)
    \/ \E p \in columnParses : ColumnComplete(p)
    \/ \E p \in columnParses : ColumnError(p)

Spec == Init /\ [][Next]_vars

\* A parse that was started ends: its complete or its error callback runs.
FairSpec == Init /\ [][Next]_vars /\ WF_vars(Callback)

\* One upload of any table, then one selection.
PipelineNext ==
    \/ uploadsLeft > 0 /\ \E f \in Tables : handleFileUpload(f)
    \/ \E c \in SelectChoices : handleColumnSelect(c)
    \/ \E p \in uploadParses : UploadComplete(p)
    \/ \E p \in uploadParses : UploadError(p)
    \/ \E p \in columnParses : ColumnComplete(p)
    \/ \E p \in columnParses : ColumnError(p)

PipelineSpec == PipelineInit /\ [][PipelineNext]_vars

(***************************************************************************)
(* Vocabulary of the properties, stated on the table itself.               *)
(***************************************************************************)
\* a cell that is empty or holds only whitespace
IsBlank(cell) == \A k \in 1..Len(cell) : SubSeq(cell, k, k) = " "

\* the header rule: every cell of the row is non-empty after trimming
HeaderRule(row) == \A j \in 1..Len(row) : ~IsBlank(row[j])

EndsInEllipsis(s) == Len(s) >= 3 /\ SubSeq(s, Len(s) - 2, Len(s)) = Ellipsis

SyntheticName(k) == "Column " \o ToString(k)

\* the cells, in order, of the rows the pass kept
KeptCells(pass) ==
    LET kept == FilterRows(PapaHeaderData(pass.rows), pass.column)
    IN  [i \in 1..Len(kept) |-> Get(kept[i], pass.column).val]

\* the rows of a table that carry data: all but the header row, if there is one
TableDataRows(rows) == IF HeaderRule(rows[1]) THEN Tail(rows) ELSE rows

\* the position of the selected column in the table's rows, 0 if it names none
TableColumnIndex(rows, column) ==
    LET w == Len(rows[1])
        hits == IF HeaderRule(rows[1])
                THEN {j \in 2..w : rows[1][j] = column}
                ELSE {k \in 2..w : SyntheticName(k) = column}
    IN  IF hits = {} THEN 0 ELSE CHOOSE j \in hits : \A k \in hits : j <= k

NoEmptySelectedCell(rows, column) ==
    LET j == TableColumnIndex(rows, column)
    IN  j # 0 /\ \A i \in 1..Len(TableDataRows(rows)) : TableDataRows(rows)[i][j] # ""

Quiescent == uploadParses = {} /\ columnParses = {}

(***************************************************************************)
(* C1.  After the upload of a table whose first row is not a header, the   *)
(* selectable columns are "Column 2", "Column 3", ..., one per source      *)
(* column from index 1 onward; the label column has no entry.              *)
(***************************************************************************)
C1_ColumnNumbering ==
    (/\ lastEvent.kind = "uploadComplete"
     /\ Len(lastEvent.pass.rows) > 0
     /\ ~HeaderRule(lastEvent.pass.rows[1]))
    => columns = [j \in 1..(Len(lastEvent.pass.rows[1]) - 1) |-> SyntheticName(j + 1)]

(***************************************************************************)
(* C2.  For a headerless table, the pass for "Column k" yields one result  *)
(* per table row (row 0 included) whose cell at index k-1 is a non-empty   *)
(* string, in row order, labelled "Row 1", "Row 2", ...                    *)
(***************************************************************************)
C2_HeaderlessResults ==
    \A k \in 2..MaxCols + 1 :
        (/\ lastEvent.kind = "columnComplete"
         /\ ~HeaderRule(lastEvent.pass.rows[1])
         /\ k <= Len(lastEvent.pass.rows[1])
         /\ lastEvent.pass.column = SyntheticName(k))
        => LET rows == lastEvent.pass.rows
               cells == SelectSeq([i \in 1..Len(rows) |-> rows[i][k]],
                                  LAMBDA c : c # "")
           IN  /\ Len(languageResults) = Len(cells)
               /\ \A i \in 1..Len(languageResults) :
                     /\ languageResults[i].label = "Row " \o ToString(i)
                     /\ Substring0(languageResults[i].text, TruncLen)
                          = Substring0(cells[i], TruncLen)

(***************************************************************************)
(* C3.  After a completed pass for one of the selectable columns,          *)
(* stats.rows >= the number of results, with equality exactly when no data *)
(* row of the table has an empty or missing cell in the selected column.   *)
(***************************************************************************)
C3_RowsAndResults ==
    (lastEvent.kind = "columnComplete" /\ lastEvent.pass.column # "")
    => /\ stats.rows >= Len(languageResults)
       /\ (stats.rows = Len(languageResults))
            <=> NoEmptySelectedCell(lastEvent.pass.rows, lastEvent.pass.column)

(***************************************************************************)
(* C4, as stated: every result text has at most 53 characters and ends in  *)
(* "..." exactly when the selected cell has more than 50 characters.       *)
(***************************************************************************)
C4_EllipsisIffLong ==
    lastEvent.kind = "columnComplete"
    => \A i \in 1..Len(languageResults) :
          /\ Len(languageResults[i].text) <= TruncLen + 3
          /\ EndsInEllipsis(languageResults[i].text)
               <=> Len(KeptCells(lastEvent.pass)[i]) > TruncLen

(***************************************************************************)
(* C4, amended: every result text has at most 53 characters; it is the     *)
(* cell itself when the cell has at most 50 characters, and the cell's     *)
(* first 50 characters followed by "..." otherwise; so it ends in "..."    *)
(* exactly when the cell is longer than 50 or itself ends in "...".        *)
(***************************************************************************)
C4_Truncation ==
    lastEvent.kind = "columnComplete"
    => /\ Len(languageResults) = Len(KeptCells(lastEvent.pass))
       /\ \A i \in 1..Len(languageResults) :
             LET text == languageResults[i].text
                 cell == KeptCells(lastEvent.pass)[i]
             IN  /\ Len(text) <= TruncLen + 3
                 /\ Len(cell) <= TruncLen => text = cell
                 /\ Len(cell) > TruncLen
                      => /\ Len(text) = TruncLen + 3
                         /\ SubSeq(text, 1, TruncLen) = SubSeq(cell, 1, TruncLen)
                         /\ EndsInEllipsis(text)
                 /\ EndsInEllipsis(text)
                      <=> (Len(cell) > TruncLen \/ EndsInEllipsis(cell))

\* a pass has kept a cell of at most 50 characters that itself ends in "..."
C4_Witness ==
    /\ lastEvent.kind = "columnComplete"
    /\ \E i \in 1..Len(languageResults) :
          /\ Len(KeptCells(lastEvent.pass)[i]) <= TruncLen
          /\ EndsInEllipsis(KeptCells(lastEvent.pass)[i])
          /\ EndsInEllipsis(languageResults[i].text)

(***************************************************************************)
(* C5.  After the error callback of a column selection's parse, an error   *)
(* is reported and languageResults and stats are what they were before     *)
(* that column selection.                                                  *)
(***************************************************************************)
C5_ErrorLeavesResults ==
    lastEvent.kind = "columnError"
    => /\ error # Null
       /\ languageResults = lastEvent.pass.before.languageResults
       /\ stats = lastEvent.pass.before.stats

(***************************************************************************)
(* C6.  In every state stats and languageResults belong together:          *)
(* stats.languages is the set of the language fields of languageResults,   *)
(* no larger than their number, and stats.rows counts the data rows of     *)
(* the very pass that wrote languageResults.                               *)
(***************************************************************************)
C6_StatsMatchResults ==
    /\ stats.languages = {languageResults[i].language : i \in 1..Len(languageResults)}
    /\ Cardinality(stats.languages) <= Len(languageResults)
    /\ Len(languageResults) <= stats.rows
    /\ IF shown = NoPass
       THEN languageResults = <<>> /\ stats.rows = 0
       ELSE stats.rows = Len(shown.rows) - 1

\* results in two languages are on display, and a later upload or a failed
\* pass has since run
C6_Witness ==
    /\ Cardinality(stats.languages) = 2
    /\ Len(languageResults) >= 2
    /\ lastEvent.kind \in {"uploadComplete", "uploadError", "columnError", "columnThrow"}
    /\ lastEvent.pass.id > shown.id

(***************************************************************************)
(* C7.  After the upload of a file that parses to zero rows (the file      *)
(* uploaded last), there is no selectable column and no default selection, *)
(* and the upload reports no error, whatever was uploaded before.          *)
(***************************************************************************)
C7_EmptyUploadClearsSchema ==
    (/\ lastEvent.kind = "uploadComplete"
     /\ Len(lastEvent.pass.rows) = 0
     /\ file.rows = lastEvent.pass.rows)
    => /\ columns = <<>>
       /\ selectedColumn = ""
       /\ error = lastEvent.pre.error

(***************************************************************************)
(* C8.  A new selection or upload supersedes the passes in flight: once    *)
(* nothing is in flight, the results on display were computed from the     *)
(* current file, and the completion of an older pass never replaces the    *)
(* results of a newer one (so the newest completed selection is shown).    *)
(***************************************************************************)
C8_NewestPassWins ==
    /\ (Quiescent /\ shown # NoPass) => shown.rows = file.rows
    /\ lastEvent.kind = "columnComplete" => lastEvent.pre.shown <= lastEvent.pass.id

(***************************************************************************)
(* C9.  The column-selection pass treats the table as having a header      *)
(* exactly when every cell of row 0 is non-empty after trimming, which is  *)
(* the decision of schema inference at upload.                             *)
(***************************************************************************)
C9_SameHeaderDecision ==
    lastEvent.kind = "columnComplete"
    => /\ lastEvent.hasHeaders = HeaderRule(lastEvent.pass.rows[1])
       /\ lastEvent.hasHeaders = UploadHasHeaders(lastEvent.pass.rows[1])

(***************************************************************************)
(* C10.  Whenever isProcessing is true, it is false again later.           *)
(***************************************************************************)
C10_ProcessingEnds == isProcessing ~> ~isProcessing

====
